---- MODULE Spec2Model ----
(***************************************************************************)
(* Huffman coding engine of huffman-visualizer/src/lib/huffman.ts.         *)
(*                                                                         *)
(* A JavaScript string is a sequence of UTF-16 code units.  A key of a     *)
(* Record (a property name) is a string, hence also a sequence of code     *)
(* units.  HuffmanNode objects live in the arena `nodes`; a reference to   *)
(* a node is its index in the arena and the null reference is 0.           *)
(***************************************************************************)
EXTENDS Integers, Sequences, FiniteSets, TLC

(* ------------------------------ bounds -------------------------------- *)
MaxLen == 5          \* longest input text, in symbols
MaxOps == 6          \* longest run of MinHeap operations (HeapSpec)
MaxWeight == 3       \* largest weight inserted directly (HeapSpec)
MaxBits == 4         \* longest bit string handed to decodeText (DecodeSpec)

(* --------------------------- strings ---------------------------------- *)
HighSurrogates == {"hi"}
LowSurrogates == {"lo"}
Digits == {"1", "2"}
\* the symbols (Unicode scalar values) texts are made of, as UTF-16:
\* three of one code unit, one of two code units (a surrogate pair)
Alphabet == {<<"a">>, <<"2">>, <<"1">>, <<"hi", "lo">>}

RECURSIVE Flatten(_)
Flatten(ss) == IF ss = <<>> THEN <<>> ELSE Head(ss) \o Flatten(Tail(ss))

RECURSIVE SeqsUpTo(_, _)
SeqsUpTo(S, n) ==
  IF n = 0 THEN {<<>>}
  ELSE LET shorter == SeqsUpTo(S, n - 1)
       IN shorter \cup {Append(s, x) : s \in {t \in shorter : Len(t) = n - 1}, x \in S}

\* the texts huffmanEncode is called with
Texts == {Flatten(T) : T \in SeqsUpTo(Alphabet, MaxLen)}

\* String.prototype[Symbol.iterator]: one string per code point; a high
\* surrogate followed by a low surrogate is one code point
RECURSIVE StringIterator(_)
StringIterator(s) ==
  IF s = <<>> THEN <<>>
  ELSE IF Len(s) >= 2 /\ s[1] \in HighSurrogates /\ s[2] \in LowSurrogates
       THEN <<SubSeq(s, 1, 2)>> \o StringIterator(SubSeq(s, 3, Len(s)))
       ELSE <<SubSeq(s, 1, 1)>> \o StringIterator(Tail(s))

\* String.prototype.split(''): one string per UTF-16 code unit
Split(s) == [i \in 1..Len(s) |-> <<s[i]>>]

\* the value of a missing property
Undefined == <<"undefined">>

\* Array.prototype.join(''): undefined elements are joined as ""
RECURSIVE Join(_)
Join(arr) ==
  IF arr = <<>> THEN <<>>
  ELSE (IF Head(arr) = Undefined THEN <<>> ELSE Head(arr)) \o Join(Tail(arr))

(* --------------------------- objects ---------------------------------- *)
\* Record<string, number>: the properties in creation order
Get(obj, k) ==
  IF \E i \in DOMAIN obj : obj[i].key = k
  THEN obj[CHOOSE i \in DOMAIN obj : obj[i].key = k].val
  ELSE 0

Set(obj, k, v) ==
  IF \E i \in DOMAIN obj : obj[i].key = k
  THEN [i \in DOMAIN obj |-> IF obj[i].key = k THEN [key |-> k, val |-> v] ELSE obj[i]]
  ELSE Append(obj, [key |-> k, val |-> v])

\* Object.entries: integer-like keys first, in ascending numeric order, then
\* the other keys in creation order
DigitValue(d) == IF d = "1" THEN 1 ELSE 2
EntryRank(obj, i) ==
  IF Len(obj[i].key) = 1 /\ obj[i].key[1] \in Digits
  THEN DigitValue(obj[i].key[1])
  ELSE 10 + i
ObjectEntries(obj) ==
  [j \in DOMAIN obj |->
     obj[CHOOSE i \in DOMAIN obj :
           Cardinality({l \in DOMAIN obj : EntryRank(obj, l) < EntryRank(obj, i)}) = j - 1]]

\* Record<string, string>: a function from the keys to the values
Lookup(codes, k) == IF k \in DOMAIN codes THEN codes[k] ELSE Undefined
Put(codes, k, v) == [x \in (DOMAIN codes) \cup {k} |-> IF x = k THEN v ELSE codes[x]]

(* ----------------------------- nodes ---------------------------------- *)
NullChar == <<>>     \* char: null (a symbol is never the empty string)
createNode(char, freq, left, right) ==
  [char |-> char, freq |-> freq, left |-> left, right |-> right]

(* ---------------------------- MinHeap --------------------------------- *)
\* indices are 0-based as in the source; ns is the arena, h the array heap
getParentIndex(index) == (index - 1) \div 2
getLeftChildIndex(index) == 2 * index + 1
getRightChildIndex(index) == 2 * index + 2
At(ns, h, index) == ns[h[index + 1]]
swap(h, index1, index2) ==
  [h EXCEPT ![index1 + 1] = h[index2 + 1], ![index2 + 1] = h[index1 + 1]]

RECURSIVE heapifyUp(_, _, _)
heapifyUp(ns, h, index) ==
  IF index = 0 THEN h
  ELSE LET parentIndex == getParentIndex(index)
       IN IF At(ns, h, parentIndex).freq > At(ns, h, index).freq
          THEN heapifyUp(ns, swap(h, parentIndex, index), parentIndex)
          ELSE h

\* heapifyDown that never looks at the right child
RECURSIVE heapifyDownLeftOnly(_, _, _)
heapifyDownLeftOnly(ns, h, index) ==
  LET leftChildIndex == getLeftChildIndex(index)
      smallest == IF leftChildIndex < Len(h)
                     /\ At(ns, h, leftChildIndex).freq < At(ns, h, index).freq
                  THEN leftChildIndex ELSE index
  IN IF smallest # index
     THEN heapifyDownLeftOnly(ns, swap(h, index, smallest), smallest)
     ELSE h

RECURSIVE heapifyDown(_, _, _)
heapifyDown(ns, h, index) ==
  LET leftChildIndex == getLeftChildIndex(index)
      rightChildIndex == getRightChildIndex(index)
      s1 == IF leftChildIndex < Len(h)
               /\ At(ns, h, leftChildIndex).freq < At(ns, h, index).freq
            THEN leftChildIndex ELSE index
      smallest == IF rightChildIndex < Len(h)
                     /\ At(ns, h, rightChildIndex).freq < At(ns, h, s1).freq
                  THEN rightChildIndex ELSE s1
  IN IF smallest # index
     THEN heapifyDown(ns, swap(h, index, smallest), smallest)
     ELSE h

\* insert without heapifyUp
insertNoHeapify(ns, h, node) == Append(h, node)

insert(ns, h, node) == heapifyUp(ns, Append(h, node), Len(h))

\* extractMin without heapifyDown: the last element stays at the root
extractMinNoSift(ns, h) ==
  IF Len(h) = 0 THEN [min |-> 0, heap |-> h]
  ELSE IF Len(h) = 1 THEN [min |-> h[1], heap |-> <<>>]
  ELSE [min |-> h[1],
        heap |-> [SubSeq(h, 1, Len(h) - 1) EXCEPT ![1] = h[Len(h)]]]

extractMin(ns, h) ==
  IF Len(h) = 0 THEN [min |-> 0, heap |-> h]
  ELSE IF Len(h) = 1 THEN [min |-> h[1], heap |-> <<>>]
  ELSE [min |-> h[1],
        heap |-> heapifyDown(ns, [SubSeq(h, 1, Len(h) - 1) EXCEPT ![1] = h[Len(h)]], 0)]

size(h) == Len(h)

(* ----------------------- pure stages ---------------------------------- *)
RECURSIVE CountInto(_, _)
CountInto(chars, frequencies) ==
  IF chars = <<>> THEN frequencies
  ELSE CountInto(Tail(chars),
                 Set(frequencies, Head(chars), Get(frequencies, Head(chars)) + 1))

\* calculateFrequencies counting UTF-16 code units (text.split(''))
calculateFrequenciesUnits(t) == CountInto(Split(t), <<>>)

calculateFrequencies(t) == CountInto(StringIterator(t), <<>>)

\* generateCodes appending "0" on both descents
RECURSIVE generateCodesSameBit(_, _, _, _)
generateCodesSameBit(ns, r, code, codes) ==
  IF r = 0 THEN codes
  ELSE IF ns[r].char # NullChar
       THEN Put(codes, ns[r].char, IF code = <<>> THEN <<"0">> ELSE code)
       ELSE generateCodesSameBit(ns, ns[r].right, Append(code, "0"),
                                 generateCodesSameBit(ns, ns[r].left, Append(code, "0"), codes))

RECURSIVE generateCodes(_, _, _, _)
generateCodes(ns, r, code, codes) ==
  IF r = 0 THEN codes
  ELSE IF ns[r].char # NullChar
       THEN Put(codes, ns[r].char, IF code = <<>> THEN <<"0">> ELSE code)
       ELSE generateCodes(ns, ns[r].right, Append(code, "1"),
                          generateCodes(ns, ns[r].left, Append(code, "0"), codes))

encodeText(t, codes) ==
  LET chars == Split(t)
  IN Join([i \in DOMAIN chars |-> Lookup(codes, chars[i])])

\* decodeText without the check after the loop (lines 166-169)
RECURSIVE DecodeLoopNoLast(_, _, _, _, _, _)
DecodeLoopNoLast(ns, r, bits, i, current, dec) ==
  IF current = 0 THEN [threw |-> TRUE, value |-> dec]
  ELSE IF i > Len(bits)
       THEN [threw |-> FALSE, value |-> dec]
       ELSE LET leaf == ns[current].char # NullChar
                dec2 == IF leaf THEN dec \o ns[current].char ELSE dec
                cur2 == IF leaf THEN r ELSE current
                next == IF bits[i] = "0" THEN ns[cur2].left ELSE ns[cur2].right
            IN DecodeLoopNoLast(ns, r, bits, i + 1, next, dec2)

\* the loop of decodeText from bit i on; reading .char of the null reference
\* throws a TypeError
RECURSIVE DecodeLoop(_, _, _, _, _, _)
DecodeLoop(ns, r, bits, i, current, dec) ==
  IF current = 0 THEN [threw |-> TRUE, value |-> dec]
  ELSE IF i > Len(bits)
       THEN [threw |-> FALSE,
             value |-> IF ns[current].char # NullChar THEN dec \o ns[current].char ELSE dec]
       ELSE LET leaf == ns[current].char # NullChar
                dec2 == IF leaf THEN dec \o ns[current].char ELSE dec
                cur2 == IF leaf THEN r ELSE current
                next == IF bits[i] = "0" THEN ns[cur2].left ELSE ns[cur2].right
            IN DecodeLoop(ns, r, bits, i + 1, next, dec2)

decodeText(encoded, ns, r) ==
  IF r = 0 THEN [threw |-> FALSE, value |-> <<>>]
  ELSE IF encoded = <<>> THEN [threw |-> FALSE, value |-> <<>>]
  ELSE DecodeLoop(ns, r, StringIterator(encoded), 1, r, <<>>)

\* compressedSize / originalSize * 100 as an exact fraction
Ratio(compressedSize, originalSize) ==
  IF originalSize > 0 THEN [num |-> compressedSize * 100, den |-> originalSize]
  ELSE [num |-> 0, den |-> 1]

ZeroResult ==
  [frequencies |-> <<>>, codes |-> <<>>, encoded |-> <<>>, decoded |-> <<>>,
   compressionRatio |-> [num |-> 0, den |-> 1], originalSize |-> 0, compressedSize |-> 0]

\* `text === null` in place of `!text`: never true of a string
IsNull(s) == FALSE

IsFalsy(s) == s = <<>>

(* ------------------------------ state --------------------------------- *)
VARIABLES
  pc,           \* position in huffmanEncode / buildHuffmanTree
  text,         \* the argument of huffmanEncode
  frequencies,  \* local of huffmanEncode
  nodes,        \* every HuffmanNode created so far
  heapNew,      \* TRUE once `new MinHeap()` has run
  heap,         \* MinHeap.heap: references to nodes
  entry,        \* number of entries buildHuffmanTree has inserted
  root,         \* local of huffmanEncode (0: null)
  codes,        \* local of huffmanEncode
  encoded,      \* local of huffmanEncode
  decoded,      \* local of huffmanEncode
  result,       \* the HuffmanResult returned
  ops,          \* HeapSpec: number of MinHeap calls made
  lastOp,       \* HeapSpec: the last MinHeap call
  min           \* HeapSpec: what the last extractMin returned (0: null)

vars == <<pc, text, frequencies, nodes, heapNew, heap, entry, root, codes,
          encoded, decoded, result, ops, lastOp, min>>

NoResult == [pending |-> TRUE]

Init ==
  /\ pc = "huffmanEncode"
  /\ text \in Texts
  /\ frequencies = <<>>
  /\ nodes = <<>>
  /\ heapNew = FALSE
  /\ heap = <<>>
  /\ entry = 0
  /\ root = 0
  /\ codes = <<>>
  /\ encoded = <<>>
  /\ decoded = <<>>
  /\ result = NoResult
  /\ ops = 0
  /\ lastOp = "none"
  /\ min = 0

(* ------------------------- huffmanEncode ------------------------------ *)
\* lines 175-185: the early return on empty text
ReturnZero ==
  /\ pc = "huffmanEncode"
  /\ IsFalsy(text)
  /\ result' = ZeroResult
  /\ pc' = "done"
  /\ UNCHANGED <<text, frequencies, nodes, heapNew, heap, entry, root, codes,
                 encoded, decoded, ops, lastOp, min>>

\* line 188
CalculateFrequencies ==
  /\ pc = "huffmanEncode"
  /\ ~IsFalsy(text)
  /\ frequencies' = calculateFrequencies(text)
  /\ pc' = "buildHuffmanTree"
  /\ UNCHANGED <<text, nodes, heapNew, heap, entry, root, codes, encoded,
                 decoded, result, ops, lastOp, min>>

\* line 103
NewHeap ==
  /\ pc = "buildHuffmanTree"
  /\ heapNew' = TRUE
  /\ heap' = <<>>
  /\ entry' = 0
  /\ pc' = "leaves"
  /\ UNCHANGED <<text, frequencies, nodes, root, codes, encoded, decoded,
                 result, ops, lastOp, min>>

\* lines 106-108, one iteration
InsertLeaf ==
  /\ pc = "leaves"
  /\ entry < Len(frequencies)
  /\ LET e == ObjectEntries(frequencies)[entry + 1]
         ns == Append(nodes, createNode(e.key, e.val, 0, 0))
     IN /\ nodes' = ns
        /\ heap' = insert(ns, heap, Len(ns))
  /\ entry' = entry + 1
  /\ UNCHANGED <<pc, text, frequencies, heapNew, root, codes, encoded, decoded,
                 result, ops, lastOp, min>>

\* lines 111-114
WrapSingle ==
  /\ pc = "leaves"
  /\ entry = Len(frequencies)
  /\ size(heap) = 1
  /\ LET x == extractMin(nodes, heap)
         ns == Append(nodes, createNode(NullChar, nodes[x.min].freq, x.min, 0))
     IN /\ heap' = x.heap
        /\ nodes' = ns
        /\ root' = Len(ns)
  /\ pc' = "generateCodes"
  /\ UNCHANGED <<text, frequencies, heapNew, entry, codes, encoded, decoded,
                 result, ops, lastOp, min>>

\* line 111 false: on to the loop of line 117
EnterLoop ==
  /\ pc = "leaves"
  /\ entry = Len(frequencies)
  /\ size(heap) # 1
  /\ pc' = "merge"
  /\ UNCHANGED <<text, frequencies, nodes, heapNew, heap, entry, root, codes,
                 encoded, decoded, result, ops, lastOp, min>>

\* the merge with the children the other way round: left = second extracted
MergeStepSwapped ==
  /\ pc = "merge"
  /\ size(heap) > 1
  /\ LET l == extractMin(nodes, heap)
         r == extractMin(nodes, l.heap)
         merged == createNode(NullChar, nodes[l.min].freq + nodes[r.min].freq, r.min, l.min)
         ns == Append(nodes, merged)
     IN /\ nodes' = ns
        /\ heap' = insert(ns, r.heap, Len(ns))
  /\ UNCHANGED <<pc, text, frequencies, heapNew, entry, root, codes, encoded,
                 decoded, result, ops, lastOp, min>>

\* lines 117-122, one iteration
MergeStep ==
  /\ pc = "merge"
  /\ size(heap) > 1
  /\ LET l == extractMin(nodes, heap)
         r == extractMin(nodes, l.heap)
         merged == createNode(NullChar, nodes[l.min].freq + nodes[r.min].freq, l.min, r.min)
         ns == Append(nodes, merged)
     IN /\ nodes' = ns
        /\ heap' = insert(ns, r.heap, Len(ns))
  /\ UNCHANGED <<pc, text, frequencies, heapNew, entry, root, codes, encoded,
                 decoded, result, ops, lastOp, min>>

\* line 124
ReturnRoot ==
  /\ pc = "merge"
  /\ size(heap) <= 1
  /\ LET x == extractMin(nodes, heap)
     IN /\ root' = x.min
        /\ heap' = x.heap
  /\ pc' = "generateCodes"
  /\ UNCHANGED <<text, frequencies, nodes, heapNew, entry, codes, encoded,
                 decoded, result, ops, lastOp, min>>

\* line 194
GenerateCodes ==
  /\ pc = "generateCodes"
  /\ codes' = generateCodes(nodes, root, <<>>, <<>>)
  /\ pc' = "encodeText"
  /\ UNCHANGED <<text, frequencies, nodes, heapNew, heap, entry, root, encoded,
                 decoded, result, ops, lastOp, min>>

\* line 197
EncodeText ==
  /\ pc = "encodeText"
  /\ encoded' = encodeText(text, codes)
  /\ pc' = "decodeText"
  /\ UNCHANGED <<text, frequencies, nodes, heapNew, heap, entry, root, codes,
                 decoded, result, ops, lastOp, min>>

\* line 200
DecodeText ==
  /\ pc = "decodeText"
  /\ LET d == decodeText(encoded, nodes, root)
     IN IF d.threw
        THEN pc' = "threw" /\ UNCHANGED decoded
        ELSE pc' = "metrics" /\ decoded' = d.value
  /\ UNCHANGED <<text, frequencies, nodes, heapNew, heap, entry, root, codes,
                 encoded, result, ops, lastOp, min>>

\* lines 203-215
Return ==
  /\ pc = "metrics"
  /\ LET originalSize == Len(text) * 8
         compressedSize == Len(encoded)
     IN result' = [frequencies |-> frequencies, codes |-> codes,
                   encoded |-> encoded, decoded |-> decoded,
                   compressionRatio |-> Ratio(compressedSize, originalSize),
                   originalSize |-> originalSize, compressedSize |-> compressedSize]
  /\ pc' = "done"
  /\ UNCHANGED <<text, frequencies, nodes, heapNew, heap, entry, root, codes,
                 encoded, decoded, ops, lastOp, min>>

Next ==
  \/ ReturnZero
  \/ CalculateFrequencies
  \/ NewHeap
  \/ InsertLeaf
  \/ WrapSingle
  \/ EnterLoop
  \/ MergeStep
  \/ ReturnRoot
  \/ GenerateCodes
  \/ EncodeText
  \/ DecodeText
  \/ Return

Spec == Init /\ [][Next]_vars

(* --------------- MinHeap under arbitrary call sequences --------------- *)
HeapInit ==
  /\ pc = "heap"
  /\ text = <<>>
  /\ frequencies = <<>>
  /\ nodes = <<>>
  /\ heapNew = TRUE
  /\ heap = <<>>
  /\ entry = 0
  /\ root = 0
  /\ codes = <<>>
  /\ encoded = <<>>
  /\ decoded = <<>>
  /\ result = NoResult
  /\ ops = 0
  /\ lastOp = "none"
  /\ min = 0

\* heap.insert(createNode(null, w)), lines 70-73
HeapInsert ==
  /\ pc = "heap"
  /\ ops < MaxOps
  /\ \E w \in 1..MaxWeight :
       LET ns == Append(nodes, createNode(NullChar, w, 0, 0))
       IN /\ nodes' = ns
          /\ heap' = insert(ns, heap, Len(ns))
  /\ ops' = ops + 1
  /\ lastOp' = "insert"
  /\ UNCHANGED <<pc, text, frequencies, heapNew, entry, root, codes, encoded,
                 decoded, result, min>>

\* heap.extractMin(), lines 75-83
HeapExtractMin ==
  /\ pc = "heap"
  /\ ops < MaxOps
  /\ LET x == extractMin(nodes, heap)
     IN /\ min' = x.min
        /\ heap' = x.heap
  /\ ops' = ops + 1
  /\ lastOp' = "extractMin"
  /\ UNCHANGED <<pc, text, frequencies, nodes, heapNew, entry, root, codes,
                 encoded, decoded, result>>

HeapNext == HeapInsert \/ HeapExtractMin

HeapSpec == HeapInit /\ [][HeapNext]_vars

(* ------------- decodeText on arbitrary bit strings -------------------- *)
\* the strings of '0' and '1' of up to MaxBits bits
BitStrings == SeqsUpTo({"0", "1"}, MaxBits)

\* calculateFrequencies(text) called on its own, the empty text included
CountFrequencies ==
  /\ pc = "huffmanEncode"
  /\ frequencies' = calculateFrequencies(text)
  /\ pc' = "buildHuffmanTree"
  /\ UNCHANGED <<text, nodes, heapNew, heap, entry, root, codes, encoded,
                 decoded, result, ops, lastOp, min>>

\* decodeText(bits, root) on the tree buildHuffmanTree returned
DecodeBits ==
  /\ pc = "generateCodes"
  /\ \E bits \in BitStrings :
       /\ encoded' = bits
       /\ LET d == decodeText(bits, nodes, root)
          IN IF d.threw
             THEN pc' = "threw" /\ UNCHANGED decoded
             ELSE pc' = "decoded" /\ decoded' = d.value
  /\ UNCHANGED <<text, frequencies, nodes, heapNew, heap, entry, root, codes,
                 result, ops, lastOp, min>>

DecodeNext ==
  \/ CountFrequencies
  \/ NewHeap
  \/ InsertLeaf
  \/ WrapSingle
  \/ EnterLoop
  \/ MergeStep
  \/ ReturnRoot
  \/ DecodeBits

DecodeSpec == Init /\ [][DecodeNext]_vars

(* ---------------------- derived quantities ---------------------------- *)
Range(f) == {f[i] : i \in DOMAIN f}

IsPrefix(p, q) == Len(p) <= Len(q) /\ SubSeq(q, 1, Len(p)) = p

RECURSIVE SumVals(_)
SumVals(obj) == IF obj = <<>> THEN 0 ELSE Head(obj).val + SumVals(Tail(obj))

RECURSIVE HeapWeight(_, _)
HeapWeight(ns, h) == IF h = <<>> THEN 0 ELSE ns[Head(h)].freq + HeapWeight(ns, Tail(h))

\* sum over the symbols of frequency x length of the symbol's code
RECURSIVE TotalLength(_, _)
TotalLength(obj, cs) ==
  IF obj = <<>> THEN 0
  ELSE Head(obj).val * Len(cs[Head(obj).key]) + TotalLength(Tail(obj), cs)

RECURSIVE Pow2(_)
Pow2(n) == IF n = 0 THEN 1 ELSE 2 * Pow2(n - 1)

RECURSIVE KraftSum(_, _)
KraftSum(lens, L) == IF lens = <<>> THEN 0 ELSE Pow2(L - Head(lens)) + KraftSum(Tail(lens), L)

RECURSIVE LengthCost(_, _)
LengthCost(obj, lens) ==
  IF obj = <<>> THEN 0 ELSE Head(obj).val * Head(lens) + LengthCost(Tail(obj), Tail(lens))

\* the codeword lengths of the prefix-free binary codes with non-empty
\* codewords over n symbols: by the Kraft-McMillan inequality a prefix-free
\* code has lengths l with sum 2^-l <= 1, and every such l is the lengths of
\* one.  A codeword longer than n symbols never lowers the total.
CodeLengths(n) ==
  {lens \in [1..n -> 1..n] : KraftSum(lens, n) <= Pow2(n)}

Returned == pc = "done" /\ text # <<>>
Built == pc \in {"generateCodes", "encodeText", "decodeText", "metrics", "done"} /\ text # <<>>
SymbolsOf(t) == StringIterator(t)

Internal(ns) == {id \in DOMAIN ns : ns[id].char = NullChar}
Leaves(ns) == {id \in DOMAIN ns : ns[id].char # NullChar}
Parents(ns, id) == {p \in DOMAIN ns : ns[p].left = id \/ ns[p].right = id}

RECURSIVE Zeros(_)
Zeros(n) == IF n = 0 THEN <<>> ELSE <<"0">> \o Zeros(n - 1)

(* ------------------------------ claims -------------------------------- *)

\* C1: round trip - the decoded field of the result of a non-empty text is
\* the text
C1_RoundTrip == Returned => result.decoded = text

\* C2: prefix-free - in the returned code table no code is a prefix of, or
\* equal to, the code of a different symbol
C2_PrefixFree ==
  pc = "done" =>
    \A a \in DOMAIN result.codes : \A b \in DOMAIN result.codes :
      a # b => ~IsPrefix(result.codes[a], result.codes[b])

C2_Witness ==
  /\ pc = "done"
  /\ \E a \in DOMAIN result.codes : \E b \in DOMAIN result.codes :
       /\ Len(result.codes[a]) = 1
       /\ Len(result.codes[b]) = 3
       /\ result.codes[b][1] # result.codes[a][1]

\* C3: optimality - the total encoded length, sum of frequency x code
\* length, is not larger than that of any prefix-free binary code with
\* non-empty codewords for the same frequency table
C3_Optimal ==
  Returned =>
    \A lens \in CodeLengths(Len(result.frequencies)) :
      TotalLength(result.frequencies, result.codes) <= LengthCost(result.frequencies, lens)

C3_Witness ==
  /\ Returned
  /\ Len(result.frequencies) = 4
  /\ \E lens \in CodeLengths(4) :
       TotalLength(result.frequencies, result.codes) < LengthCost(result.frequencies, lens)
  /\ \E i \in 1..4 : \E j \in 1..4 :
       result.frequencies[i].val > result.frequencies[j].val

\* C4: monotonicity - a symbol of strictly higher frequency never has a
\* strictly longer code
C4_Monotone ==
  Returned =>
    \A i \in DOMAIN result.frequencies : \A j \in DOMAIN result.frequencies :
      result.frequencies[i].val > result.frequencies[j].val
        => Len(result.codes[result.frequencies[i].key])
             <= Len(result.codes[result.frequencies[j].key])

\* a more frequent symbol with a shorter code, next to two symbols of equal
\* frequency whose codes differ in length (the heap decided the tie)
C4_Witness ==
  /\ Returned
  /\ \E i \in DOMAIN result.frequencies : \E j \in DOMAIN result.frequencies :
       /\ result.frequencies[i].val > result.frequencies[j].val
       /\ Len(result.codes[result.frequencies[i].key])
            < Len(result.codes[result.frequencies[j].key])
  /\ \E i \in DOMAIN result.frequencies : \E j \in DOMAIN result.frequencies :
       /\ i # j
       /\ result.frequencies[i].val = result.frequencies[j].val
       /\ Len(result.codes[result.frequencies[i].key])
            # Len(result.codes[result.frequencies[j].key])

\* C5: weight conservation - the frequencies sum to the number of symbols of
\* the text, the root weighs that sum, and before and after every merge step
\* the nodes in the heap weigh that sum together
C5_WeightConservation ==
  /\ (pc # "huffmanEncode" /\ text # <<>>) =>
        SumVals(frequencies) = Len(SymbolsOf(text))
  /\ pc = "merge" => HeapWeight(nodes, heap) = Len(SymbolsOf(text))
  /\ Built => root # 0 /\ nodes[root].freq = SumVals(frequencies)

C5_Witness ==
  /\ pc = "merge"
  /\ Len(nodes) > Len(frequencies)
  /\ size(heap) > 1
  /\ Len(text) > Len(SymbolsOf(text))

\* C6: the encoder's lookups never fail - every string encodeText looks up
\* is a key of the code table, the encoded stream is the codes of the
\* symbols of the text in order, and compressedSize is the sum of
\* frequency x code length
C6_LookupNeverFails ==
  Returned =>
    /\ \A i \in DOMAIN Split(text) : Split(text)[i] \in DOMAIN result.codes
    /\ result.encoded =
         Flatten([i \in DOMAIN SymbolsOf(text) |-> result.codes[SymbolsOf(text)[i]]])
    /\ result.compressedSize = TotalLength(result.frequencies, result.codes)

\* C7: single symbol - for n repetitions of one symbol s the tree is one
\* internal node of weight n over the leaf of s on the left and nothing on
\* the right, the code table is {s: "0"}, the encoded stream is n zeros and
\* the decoded text is the input
C7_SingleSymbol ==
  (Returned /\ Cardinality(Range(SymbolsOf(text))) = 1) =>
    LET s == SymbolsOf(text)[1]
        n == Len(SymbolsOf(text))
    IN /\ root # 0
       /\ nodes[root].char = NullChar
       /\ nodes[root].freq = n
       /\ nodes[root].right = 0
       /\ nodes[root].left # 0
       /\ nodes[nodes[root].left] = [char |-> s, freq |-> n, left |-> 0, right |-> 0]
       /\ DOMAIN result.codes = {s}
       /\ result.codes[s] = <<"0">>
       /\ result.encoded = Zeros(n)
       /\ result.decoded = text

\* C8: empty input - huffmanEncode("") returns the zeroed result and builds
\* no heap and no tree
C8_EmptyInput ==
  text = <<>> =>
    /\ pc \in {"huffmanEncode", "done"}
    /\ ~heapNew /\ nodes = <<>> /\ root = 0
    /\ pc = "done" =>
         /\ result.frequencies = <<>>
         /\ DOMAIN result.codes = {}
         /\ result.encoded = <<>>
         /\ result.decoded = <<>>
         /\ result.originalSize = 0
         /\ result.compressedSize = 0
         /\ result.compressionRatio.num = 0

C8_Witness == pc = "done" /\ text = <<>>

\* C9: priority queue - extractMin on a non-empty heap removes exactly one
\* node, of weight <= the weight of every node left, and leaves the other
\* nodes in the heap; on an empty heap it returns null and the heap stays
\* empty
C9_ExtractMin ==
  [][lastOp' = "extractMin" /\ ops' = ops + 1 =>
       IF heap = <<>>
       THEN min' = 0 /\ heap' = <<>>
       ELSE /\ min' \in Range(heap)
            /\ Range(heap') = Range(heap) \ {min'}
            /\ size(heap') = size(heap) - 1
            /\ \A id \in Range(heap') : nodes[min'].freq <= nodes[id].freq]_vars

\* an extraction from a heap of four or more nodes that leaves a node
\* heavier than the one returned
C9_Witness ==
  /\ lastOp = "extractMin"
  /\ min # 0
  /\ size(heap) >= 3
  /\ \E id \in Range(heap) : nodes[id].freq > nodes[min].freq

\* the nodes built for two or more distinct symbols are a strict binary tree
\* under the root, with one leaf per distinct symbol
C10_Shape ==
  (Built /\ Cardinality(Range(SymbolsOf(text))) >= 2) =>
    /\ \A id \in Internal(nodes) :
         /\ nodes[id].left # 0 /\ nodes[id].right # 0
         /\ nodes[id].left # nodes[id].right
         /\ nodes[id].freq = nodes[nodes[id].left].freq + nodes[nodes[id].right].freq
    /\ \A id \in Leaves(nodes) : nodes[id].left = 0 /\ nodes[id].right = 0
    /\ \A i \in DOMAIN frequencies :
         Cardinality({id \in Leaves(nodes) :
                        nodes[id].char = frequencies[i].key
                        /\ nodes[id].freq = frequencies[i].val}) = 1
    /\ Cardinality(Leaves(nodes)) = Len(frequencies)
    /\ Cardinality(Leaves(nodes)) = Cardinality(Range(SymbolsOf(text)))
    /\ root \in Internal(nodes)
    /\ Parents(nodes, root) = {}
    /\ \A id \in DOMAIN nodes : id # root => Cardinality(Parents(nodes, id)) = 1

\* a merge takes the root of the heap as left child and a lightest of the
\* remaining nodes as right child
C10_MergeOrder ==
  (pc = "merge" /\ Len(nodes') = Len(nodes) + 1) =>
    LET m == nodes'[Len(nodes')]
    IN /\ m.char = NullChar
       /\ m.left = heap[1]
       /\ m.right \in Range(heap) \ {m.left}
       /\ \A id \in Range(heap) \ {m.left} : nodes[m.right].freq <= nodes[id].freq
       /\ nodes[m.left].freq <= nodes[m.right].freq
       /\ m.freq = nodes[m.left].freq + nodes[m.right].freq

\* C10: tree shape - with two or more distinct symbols every internal node
\* has no symbol and two children, the first and the second node extracted,
\* and their weights' sum as weight; the leaves are one per distinct symbol,
\* weighing its frequency
C10_TreeShape == []C10_Shape /\ [][C10_MergeOrder]_vars

C10_Witness ==
  /\ Built
  /\ Cardinality(Range(SymbolsOf(text))) >= 3
  /\ \E id \in Internal(nodes) :
       /\ nodes[id].left \in Internal(nodes)
       /\ nodes[id].right \in Leaves(nodes)
  /\ Len(text) > Len(SymbolsOf(text))

\* the decoder as specified: current starts at the root; each bit descends
\* first (0: left, 1: right), then a leaf reached emits its symbol and
\* resets current to the root.  out is the text emitted, current the node
\* the walk ends on, stuck whether it stepped off the tree
RECURSIVE Walk(_, _, _, _, _, _)
Walk(ns, r, bits, i, current, out) ==
  IF i > Len(bits) THEN [out |-> out, current |-> current, stuck |-> FALSE]
  ELSE LET next == IF bits[i] = "0" THEN ns[current].left ELSE ns[current].right
       IN IF next = 0 THEN [out |-> out, current |-> 0, stuck |-> TRUE]
          ELSE IF ns[next].char # NullChar
               THEN Walk(ns, r, bits, i + 1, r, out \o ns[next].char)
               ELSE Walk(ns, r, bits, i + 1, next, out)

Decoded == pc \in {"decoded", "threw"}

\* C11: decoder walk - on a tree built from two or more distinct symbols
\* decodeText returns, for every bit string, the text the specified walk
\* emits (descend first, then emit and reset at a leaf; bits after the last
\* complete code emit nothing); an empty bit string or an absent root gives
\* the empty text
C11_DecoderWalk ==
  /\ (Decoded /\ Cardinality(Range(SymbolsOf(text))) >= 2) =>
        /\ pc = "decoded"
        /\ root # 0
        /\ ~Walk(nodes, root, encoded, 1, root, <<>>).stuck
        /\ decoded = Walk(nodes, root, encoded, 1, root, <<>>).out
  /\ (Decoded /\ (root = 0 \/ encoded = <<>>)) =>
        pc = "decoded" /\ decoded = <<>>

\* two symbols decoded, one of them a surrogate pair, and the bit string
\* ends in the middle of a code
C11_Witness ==
  /\ pc = "decoded"
  /\ Cardinality(Range(SymbolsOf(text))) >= 3
  /\ Len(SymbolsOf(decoded)) >= 2
  /\ Len(decoded) > Len(SymbolsOf(decoded))
  /\ Walk(nodes, root, encoded, 1, root, <<>>).current # root

====
